---- MODULE Spec2Model ----
(***************************************************************************)
(* Model of gwwnetworktrace: the Graph data structure, its builders        *)
(* (add_edge, from_dicts, add_qgis_parcel_ids) and the Trace engine of     *)
(* gww_gis_tools/trace_gis/trace_sewer.py.                                  *)
(*                                                                         *)
(* Encoding.  Node identifiers, pipe identifiers and QGIS feature ids are  *)
(* opaque values in the program; here they are integers.  Nodes A, B, C,   *)
(* D, ... are 1, 2, 3, 4, ...  Python's None is the integer None below.    *)
(* A defaultdict(list) is a function whose DOMAIN is the set of keys the   *)
(* dictionary holds: reading a missing key returns [] AND inserts the key. *)
(* A plain dict passed as a record of from_dicts is a sequence of          *)
(* <<key, value>> pairs in insertion order.                                *)
(***************************************************************************)
EXTENDS Integers, Sequences, FiniteSets, TLC

\* ------------------------------------------------------------------ bounds
NumNodes == 2       \* node identifiers 1..NumNodes
MaxEdges == 2       \* at most this many edges in a graph built edge by edge
MaxLinks == 2       \* at most this many records in one from_dicts input
MaxBranches == 1    \* at most this many parcel links on one Graph
MaxCalls == 2       \* at most this many get_layer_graph calls
BufferLen == 4      \* tokens an open file buffers before it writes them out

\* --------------------------------------------------------------- constants
None == 0 - 1
U == "upstream"
D == "downstream"
DIRECTION == {U, D}
SUPPORTED_KEYS == <<"START_NODE", "END_NODE", "PIPE_ID", "QGIS_FID">>

Nodes == 1..NumNodes
\* feature.id() of the k-th feature of a layer: ids start at 0, which is falsy
FeatureId(k) == k - 1

\* the nodes the documented scenarios name
Named == [A |-> 1, B |-> 2, C |-> 3, D |-> 4]

\* ------------------------------------------------------------- sequences
Range(s) == {s[i] : i \in 1..Len(s)}

RECURSIVE SumLen(_, _)
\* total length of the sequences d[k], k in ks
SumLen(d, ks) ==
  IF ks = {} THEN 0
  ELSE LET k == CHOOSE x \in ks : TRUE
       IN Len(d[k]) + SumLen(d, ks \ {k})

\* ---------------------------------------------------- dict / defaultdict
EmptyDict == [k \in {} |-> <<>>]

\* value of d[k] on a defaultdict(list)
Lookup(d, k) == IF k \in DOMAIN d THEN d[k] ELSE <<>>

\* the dictionary after d[k] was read: a missing key is inserted with []
Touch(d, k) == IF k \in DOMAIN d THEN d ELSE d @@ (k :> <<>>)

\* d[k].append(v) on a defaultdict(list)
AppendAt(d, k, v) == [Touch(d, k) EXCEPT ![k] = Append(@, v)]

\* d[k] = v on a plain dict
SetItem(d, k, v) == [x \in (DOMAIN d) \cup {k} |-> IF x = k THEN v ELSE d[x]]

\* Python truthiness of an int-or-None value
Truthy(v) == v # None /\ v # 0

\* ------------------------------------------------------------------ state
VARIABLES
  direction,          \* Graph.direction
  nodes,              \* Graph.nodes: defaultdict node -> list of neighbours
  pipes,              \* Graph.pipes: defaultdict node -> list of pipe ids
  qgis_fids,          \* Graph.qgis_fids: dict pipe id -> feature id
  qgis_parcel_fids,   \* Graph.qgis_parcel_fids: defaultdict pipe id -> list
  op,                 \* the operation called last
  input,              \* the argument of the last from_dicts call
  err,                \* the exception the last call raised, or "none"
  pc,                 \* position of Trace.trace: idle, loop, return, done
  first_node,         \* trace argument
  stop_node,          \* nodes on which the stop predicate returns False
  node_queue,         \* trace local
  pipes_visited,      \* trace local
  nodes_visited,      \* trace local
  end_of_path_nodes,  \* trace local
  result,             \* the TraceResult returned last
  edges,              \* history: the add_edge calls made on this Graph
  expanded,           \* history: nodes the running trace expanded, in order
  halted,             \* history: the node the stop predicate rejected
  files,              \* the file system: path -> text of the file
  writable,           \* the paths that can be opened for writing
  props,              \* custom properties of layers[0]: key -> value
  seed,               \* the string-hash seed of the running process
  ret,                \* what the last cache or file operation returned
  writers             \* the to_file calls in progress

graphVars == <<direction, nodes, pipes, qgis_fids, qgis_parcel_fids>>
callVars  == <<op, input, err>>
traceVars == <<pc, first_node, stop_node, node_queue, pipes_visited,
               nodes_visited, end_of_path_nodes, result, expanded, halted>>
hostVars == <<files, writable, props, seed, ret, writers>>
vars == <<graphVars, callVars, traceVars, edges, hostVars>>

\* ------------------------------------------------------------------ Graph
\* Graph.__init__
NewGraphValue(d) ==
  [direction |-> d, nodes |-> EmptyDict, pipes |-> EmptyDict,
   qgis_fids |-> EmptyDict, qgis_parcel_fids |-> EmptyDict]

self ==
  [direction |-> direction, nodes |-> nodes, pipes |-> pipes,
   qgis_fids |-> qgis_fids, qgis_parcel_fids |-> qgis_parcel_fids]

Assign(g) ==
  /\ direction' = g.direction
  /\ nodes' = g.nodes
  /\ pipes' = g.pipes
  /\ qgis_fids' = g.qgis_fids
  /\ qgis_parcel_fids' = g.qgis_parcel_fids

\* add_edge that ignores the direction and always builds downstream
add_edge_Downstream(g, start_node, end_node, pipe_id, qgis_fid) ==
  LET g1 == [g EXCEPT !.nodes = AppendAt(@, start_node, end_node),
                      !.pipes = AppendAt(@, start_node, pipe_id)]
  IN IF Truthy(qgis_fid)
       THEN [g1 EXCEPT !.qgis_fids = SetItem(@, pipe_id, qgis_fid)]
       ELSE g1

\* add_edge whose upstream branch files the pipe under the start node
add_edge_PipesAtStart(g, start_node, end_node, pipe_id, qgis_fid) ==
  LET g1 == IF g.direction = U
              THEN [g EXCEPT !.nodes = AppendAt(@, end_node, start_node),
                             !.pipes = AppendAt(@, start_node, pipe_id)]
            ELSE [g EXCEPT !.nodes = AppendAt(@, start_node, end_node),
                           !.pipes = AppendAt(@, start_node, pipe_id)]
  IN IF Truthy(qgis_fid)
       THEN [g1 EXCEPT !.qgis_fids = SetItem(@, pipe_id, qgis_fid)]
       ELSE g1

\* add_edge whose upstream branch records the end node as the neighbour
add_edge_NeighbourEnd(g, start_node, end_node, pipe_id, qgis_fid) ==
  LET g1 == IF g.direction = U
              THEN [g EXCEPT !.nodes = AppendAt(@, end_node, end_node),
                             !.pipes = AppendAt(@, end_node, pipe_id)]
            ELSE [g EXCEPT !.nodes = AppendAt(@, start_node, end_node),
                           !.pipes = AppendAt(@, start_node, pipe_id)]
  IN IF Truthy(qgis_fid)
       THEN [g1 EXCEPT !.qgis_fids = SetItem(@, pipe_id, qgis_fid)]
       ELSE g1

\* Graph.add_edge
add_edge(g, start_node, end_node, pipe_id, qgis_fid) ==
  LET g1 == IF g.direction = U
              THEN [g EXCEPT !.nodes = AppendAt(@, end_node, start_node),
                             !.pipes = AppendAt(@, end_node, pipe_id)]
            ELSE IF g.direction = D
              THEN [g EXCEPT !.nodes = AppendAt(@, start_node, end_node),
                             !.pipes = AppendAt(@, start_node, pipe_id)]
            ELSE g
  IN IF Truthy(qgis_fid)
       THEN [g1 EXCEPT !.qgis_fids = SetItem(@, pipe_id, qgis_fid)]
       ELSE g1

RECURSIVE add_qgis_parcel_ids_Dedup(_, _)
\* an enrichment that keeps one copy of each reference
add_qgis_parcel_ids_Dedup(g, branches_info) ==
  IF branches_info = <<>> THEN g
  ELSE LET branch == Head(branches_info)
           had == Lookup(g.qgis_parcel_fids, branch.PIPE_ID)
           g1 == IF branch.PARCEL_FID \in Range(had)
                   THEN [g EXCEPT !.qgis_parcel_fids =
                           Touch(@, branch.PIPE_ID)]
                 ELSE [g EXCEPT !.qgis_parcel_fids =
                         AppendAt(@, branch.PIPE_ID, branch.PARCEL_FID)]
       IN add_qgis_parcel_ids_Dedup(g1, Tail(branches_info))

\* Graph.add_qgis_parcel_ids
RECURSIVE add_qgis_parcel_ids(_, _)
add_qgis_parcel_ids(g, branches_info) ==
  IF branches_info = <<>> THEN g
  ELSE LET branch == Head(branches_info)
           g1 == [g EXCEPT !.qgis_parcel_fids =
                     AppendAt(@, branch.PIPE_ID, branch.PARCEL_FID)]
       IN add_qgis_parcel_ids(g1, Tail(branches_info))

\* ----------------------------------------------------- dict records
\* link.keys(), in insertion order
KeysOf(link) == [i \in 1..Len(link) |-> link[i][1]]

\* `k in link`
HasKey(link, k) == \E i \in 1..Len(link) : link[i][1] = k

\* link[k], for a key the record has
GetItem(link, k) == link[CHOOSE i \in 1..Len(link) : link[i][1] = k][2]

\* the keys taken in the order the first record lists them
SelectKeys_RecordOrder(fields) ==
  SelectSeq(fields, LAMBDA f : f \in Range(SUPPORTED_KEYS))

\* `keys = [f for f in SUPPORTED_KEYS if f in fields]`: lines 77-78
SelectKeys(fields) ==
  SelectSeq(SUPPORTED_KEYS, LAMBDA f : f \in Range(fields))

\* the result of a call: the graph, the exception raised, and (history) the
\* add_edge calls it made
Outcome(g, e, calls) == [g |-> g, err |-> e, calls |-> calls]

RECURSIVE from_dicts_loop(_, _, _, _)
\* `for link in links: self.add_edge(*tuple(link[k] for k in keys))`:
\* lines 80-82.  link[k] raises KeyError on a missing key; add_edge raises
\* TypeError when fewer than its three required arguments are passed.
from_dicts_loop(g, links, keys, calls) ==
  IF links = <<>> THEN Outcome(g, "none", calls)
  ELSE LET link == Head(links)
       IN IF \E j \in 1..Len(keys) : ~HasKey(link, keys[j])
            THEN Outcome(g, "KeyError", calls)
          ELSE LET args == [j \in 1..Len(keys) |-> GetItem(link, keys[j])]
               IN IF Len(args) < 3
                    THEN Outcome(g, "TypeError", calls)
                  ELSE LET qgis_fid == IF Len(args) = 4 THEN args[4] ELSE None
                       IN from_dicts_loop(
                            add_edge(g, args[1], args[2], args[3], qgis_fid),
                            Tail(links), keys,
                            Append(calls, [start_node |-> args[1],
                                           end_node |-> args[2],
                                           pipe_id |-> args[3]]))

\* Graph.from_dicts; next(iter(links)) raises StopIteration on an empty list
from_dicts(g, links) ==
  IF links = <<>> THEN Outcome(g, "StopIteration", <<>>)
  ELSE LET fields == KeysOf(Head(links))
           keys == SelectKeys(fields)
       IN from_dicts_loop(g, links, keys, <<>>)

\* ------------------------------------------------------------------ Trace
\* self.stop_node(next_node); the default predicate rejects nothing
StopPredicate(stop, n) == n \notin stop

NoResult ==
  [trace_summary |-> EmptyDict, pipes |-> {}, nodes |-> {},
   end_of_path_nodes |-> {}]

\* the locals of a trace that is not running
TraceIdle ==
  /\ first_node' = None
  /\ stop_node' = {}
  /\ node_queue' = <<>>
  /\ pipes_visited' = {}
  /\ nodes_visited' = {}
  /\ end_of_path_nodes' = {}
  /\ result' = NoResult
  /\ expanded' = <<>>
  /\ halted' = {}

\* the state one iteration of the while loop works on
TraceState ==
  [nodes |-> nodes, pipes |-> pipes, node_queue |-> node_queue,
   pipes_visited |-> pipes_visited, nodes_visited |-> nodes_visited,
   end_of_path_nodes |-> end_of_path_nodes, brk |-> FALSE,
   expanded |-> expanded, halted |-> halted]

\* `if not self.stop_node(next_node):` line 193
Rejected(stop, next_node) == ~StopPredicate(stop, next_node)

\* a hard stop that does not leave the loop
HardStop_NoBreak(t, next_node) ==
  [t EXCEPT !.nodes_visited = @ \cup {next_node},
            !.end_of_path_nodes = @ \cup {next_node},
            !.halted = {next_node}]

\* a hard stop that does not record the end of path
HardStop_NoEndOfPath(t, next_node) ==
  [t EXCEPT !.nodes_visited = @ \cup {next_node},
            !.brk = TRUE,
            !.halted = {next_node}]

\* a hard stop that collects the pipes of the rejected node
HardStop_WithPipes(t, next_node) ==
  [t EXCEPT !.nodes_visited = @ \cup {next_node},
            !.end_of_path_nodes = @ \cup {next_node},
            !.pipes_visited = @ \cup Range(Lookup(t.pipes, next_node)),
            !.brk = TRUE,
            !.halted = {next_node}]

\* the stop predicate rejected next_node: lines 194-196
HardStop(t, next_node) ==
  [t EXCEPT !.nodes_visited = @ \cup {next_node},
            !.end_of_path_nodes = @ \cup {next_node},
            !.brk = TRUE,
            !.halted = {next_node}]

\* no visited check: every popped node is expanded
Unvisited_Always(t, next_node) == TRUE

\* `if next_node not in nodes_visited:` line 198
Unvisited(t, next_node) == next_node \notin t.nodes_visited

\* a dead end only when the node is a key of the graph
DeadEnd_KnownOnly(t, next_node, next_nodes) ==
  next_node \in DOMAIN t.nodes /\ next_nodes = <<>>

\* `if not next_nodes:` line 203
DeadEnd(t, next_node, next_nodes) == next_nodes = <<>>

\* next_node is visited for the first time: lines 199-207
Expand(t, next_node) ==
  LET next_nodes == Lookup(t.nodes, next_node)
      next_pipes == Lookup(t.pipes, next_node)
  IN [t EXCEPT !.nodes = Touch(@, next_node),
               !.pipes = Touch(@, next_node),
               !.nodes_visited = @ \cup {next_node},
               !.end_of_path_nodes =
                  IF DeadEnd(t, next_node, next_nodes)
                    THEN @ \cup {next_node} ELSE @,
               !.node_queue = @ \o next_nodes,
               !.pipes_visited = @ \cup Range(next_pipes),
               !.expanded = Append(@, next_node)]

\* an iteration that takes the oldest entry of the queue, not the newest
TraceLoop_Fifo(t, stop) ==
  LET n == Len(t.node_queue)
      next_node == t.node_queue[1]
      t1 == [t EXCEPT !.node_queue = SubSeq(@, 2, n)]
  IN IF Rejected(stop, next_node) THEN HardStop(t1, next_node)
     ELSE IF Unvisited(t1, next_node) THEN Expand(t1, next_node)
     ELSE t1

\* one iteration of `while node_queue:` in Trace.trace: lines 190-207
TraceLoop(t, stop) ==
  LET n == Len(t.node_queue)
      next_node == t.node_queue[n]
      t1 == [t EXCEPT !.node_queue = SubSeq(@, 1, n - 1)]
  IN IF Rejected(stop, next_node) THEN HardStop(t1, next_node)
     ELSE IF Unvisited(t1, next_node) THEN Expand(t1, next_node)
     ELSE t1

\* ---------------------------------------------------------------- actions
NoTraceRunning == pc \in {"idle", "done"}

\* Graph(direction)
NewGraph(d) ==
  /\ NoTraceRunning
  /\ op # "init"
  /\ Assign(NewGraphValue(d))
  /\ edges' = <<>>
  /\ op' = "init" /\ input' = <<>> /\ err' = "none"
  /\ pc' = "idle" /\ TraceIdle
  /\ UNCHANGED hostVars

\* graph.add_edge(start_node, end_node, pipe_id, qgis_fid)
AddEdge(start_node, end_node, pipe_id, qgis_fid) ==
  /\ NoTraceRunning
  /\ err = "none"
  /\ Assign(add_edge(self, start_node, end_node, pipe_id, qgis_fid))
  /\ edges' = Append(edges, [start_node |-> start_node,
                             end_node |-> end_node, pipe_id |-> pipe_id])
  /\ op' = "add_edge" /\ input' = <<>> /\ err' = "none"
  /\ pc' = "idle" /\ TraceIdle
  /\ UNCHANGED hostVars

\* graph.from_dicts(links)
FromDicts(links) ==
  /\ NoTraceRunning
  /\ err = "none"
  /\ \E r \in {from_dicts(self, links)} :
        /\ Assign(r.g)
        /\ edges' = edges \o r.calls
        /\ err' = r.err
  /\ op' = "from_dicts" /\ input' = links
  /\ pc' = "idle" /\ TraceIdle
  /\ UNCHANGED hostVars

\* graph.add_qgis_parcel_ids(branches_info)
AddQgisParcelIds(branches_info) ==
  /\ NoTraceRunning
  /\ err = "none"
  /\ Assign(add_qgis_parcel_ids(self, branches_info))
  /\ op' = "add_qgis_parcel_ids" /\ input' = <<>> /\ err' = "none"
  /\ pc' = "idle" /\ TraceIdle
  /\ UNCHANGED <<edges, hostVars>>

\* Trace(graph, stop_node).trace(first_node): lines 182-188
TraceStart(first, stop) ==
  /\ NoTraceRunning
  /\ err = "none"
  /\ pc' = "loop"
  /\ first_node' = first
  /\ stop_node' = stop
  /\ node_queue' = <<first>>
  /\ pipes_visited' = {}
  /\ nodes_visited' = {}
  /\ end_of_path_nodes' = {}
  /\ result' = NoResult
  /\ expanded' = <<>>
  /\ halted' = {}
  /\ op' = "trace" /\ input' = <<>> /\ err' = "none"
  /\ UNCHANGED <<graphVars, edges, hostVars>>

\* one iteration of the while loop: lines 190-207
TraceStep ==
  /\ pc = "loop"
  /\ node_queue # <<>>
  /\ \E t \in {TraceLoop(TraceState, stop_node)} :
        /\ nodes' = t.nodes
        /\ pipes' = t.pipes
        /\ node_queue' = t.node_queue
        /\ pipes_visited' = t.pipes_visited
        /\ nodes_visited' = t.nodes_visited
        /\ end_of_path_nodes' = t.end_of_path_nodes
        /\ expanded' = t.expanded
        /\ halted' = t.halted
        /\ pc' = IF t.brk THEN "return" ELSE "loop"
  /\ UNCHANGED <<direction, qgis_fids, qgis_parcel_fids, callVars,
                 first_node, stop_node, result, edges, hostVars>>

\* the TraceResult built after the loop: lines 209-225
MakeResult(summary, t, first) ==
  [trace_summary |->
     IF summary
       THEN [g_size |-> Cardinality(DOMAIN t.nodes),
             direction |-> direction,
             start_node |-> first]
       ELSE EmptyDict,
   pipes |-> t.pipes_visited,
   nodes |-> t.nodes_visited,
   end_of_path_nodes |-> t.end_of_path_nodes]

\* the loop is left (line 190 or 196) and the result is built: lines 209-225
TraceReturn(summary) ==
  /\ \/ pc = "return"
     \/ pc = "loop" /\ node_queue = <<>>
  /\ pc' = "done"
  /\ result' = MakeResult(summary, TraceState, first_node)
  /\ UNCHANGED <<graphVars, callVars, first_node, stop_node, node_queue,
                 pipes_visited, nodes_visited, end_of_path_nodes,
                 expanded, halted, edges, hostVars>>

RECURSIVE RunLoop(_, _)
\* `while node_queue:` with its break, run to its end: lines 190-207
RunLoop(t, stop) ==
  IF t.brk \/ t.node_queue = <<>> THEN t
  ELSE RunLoop(TraceLoop(t, stop), stop)

\* Trace(graph, stop_node).trace(first_node, summary) as one call: lines 170-225
TraceCall(first, stop, summary) ==
  /\ NoTraceRunning
  /\ err = "none"
  /\ \E t \in {RunLoop([nodes |-> nodes, pipes |-> pipes,
                        node_queue |-> <<first>>, pipes_visited |-> {},
                        nodes_visited |-> {}, end_of_path_nodes |-> {},
                        brk |-> FALSE, expanded |-> <<>>, halted |-> {}], stop)} :
        /\ nodes' = t.nodes
        /\ pipes' = t.pipes
        /\ node_queue' = t.node_queue
        /\ pipes_visited' = t.pipes_visited
        /\ nodes_visited' = t.nodes_visited
        /\ end_of_path_nodes' = t.end_of_path_nodes
        /\ expanded' = t.expanded
        /\ halted' = t.halted
        /\ result' = MakeResult(summary, t, first)
  /\ pc' = "done"
  /\ first_node' = first
  /\ stop_node' = stop
  /\ op' = "trace" /\ input' = <<>> /\ err' = "none"
  /\ UNCHANGED <<direction, qgis_fids, qgis_parcel_fids, edges, hostVars>>

\* ------------------------------------------------------------------ inputs
\* the edge list of the documented scenario: 1:A->B, 2:B->C, 3:B->D
ScenarioTree == <<<<Named.A, Named.B>>, <<Named.B, Named.C>>, <<Named.B, Named.D>>>>

\* the documented cycle: A->B->C->A
ScenarioCycle == <<<<Named.A, Named.B>>, <<Named.B, Named.C>>, <<Named.C, Named.A>>>>

Scenarios == {ScenarioTree, ScenarioCycle}

\* (start_node, end_node) pairs an edge may have: every pair over Nodes, and
\* the pairs of the documented scenarios
EdgeEnds == (Nodes \X Nodes) \cup UNION {Range(sc) : sc \in Scenarios}

IsPrefix(s, t) == Len(s) <= Len(t) /\ SubSeq(t, 1, Len(s)) = s

\* the (start_node, end_node) pairs of the edges added so far
EndsOf(recs) == [k \in 1..Len(recs) |-> <<recs[k].start_node, recs[k].end_node>>]

\* nodes a trace may start from or stop at
TraceNodes == Nodes \cup {p[1] : p \in EdgeEnds} \cup {p[2] : p \in EdgeEnds}

\* stop predicates: the default one, and `lambda n: n != x`
StopNodes == {{}} \cup {{x} : x \in TraceNodes}

\* edge ids are unique: the k-th edge of a Graph has id k
NextPipeId == Len(edges) + 1

\* no file, no property, nothing returned, no write in progress
NoReturn == [op |-> "none", err |-> "none"]
HostIdle ==
  /\ files = EmptyDict
  /\ writable = {}
  /\ props = EmptyDict
  /\ seed = 0
  /\ ret = NoReturn
  /\ writers = EmptyDict

\* -------------------------------------------------------------- behaviour
\* a Graph that was just constructed, and no trace
GraphInit ==
  /\ direction \in DIRECTION
  /\ nodes = EmptyDict
  /\ pipes = EmptyDict
  /\ qgis_fids = EmptyDict
  /\ qgis_parcel_fids = EmptyDict
  /\ op = "init" /\ input = <<>> /\ err = "none"
  /\ pc = "idle"
  /\ first_node = None
  /\ stop_node = {}
  /\ node_queue = <<>>
  /\ pipes_visited = {}
  /\ nodes_visited = {}
  /\ end_of_path_nodes = {}
  /\ result = NoResult
  /\ expanded = <<>>
  /\ halted = {}
  /\ edges = <<>>

Init == GraphInit /\ HostIdle

\* the edge lists built: every list of at most MaxEdges edges over Nodes, and
\* the lists of the documented scenarios
BuildEdge ==
  \E p \in EdgeEnds :
    /\ \/ p \in Nodes \X Nodes /\ Len(edges) < MaxEdges
       \/ \E sc \in Scenarios : IsPrefix(Append(EndsOf(edges), p), sc)
    /\ AddEdge(p[1], p[2], NextPipeId, None)

StartTrace == \E first \in TraceNodes, stop \in StopNodes : TraceStart(first, stop)

\* trace(first_node) is called with the default summary=False
ReturnTrace == TraceReturn(FALSE)

Next ==
  \/ BuildEdge
  \/ StartTrace
  \/ TraceStep
  \/ ReturnTrace

Spec == Init /\ [][Next]_vars

\* ------------------------------------------------- inputs of from_dicts
\* the key order of the records the layer provider makes
\* (LayerData.extract_feature_data), and the order of SUPPORTED_KEYS
ProviderOrder == <<"PIPE_ID", "START_NODE", "END_NODE", "QGIS_FID">>
KeyOrders == {ProviderOrder, SUPPORTED_KEYS}
RequiredKeys == {"START_NODE", "END_NODE", "PIPE_ID"}

\* a record with the given values, its keys in the given order
MakeLink(order, with_fid, start_node, end_node, pipe_id, qgis_fid) ==
  LET value(k) == CASE k = "START_NODE" -> start_node
                    [] k = "END_NODE" -> end_node
                    [] k = "PIPE_ID" -> pipe_id
                    [] k = "QGIS_FID" -> qgis_fid
      ks == SelectSeq(order, LAMBDA k : k # "QGIS_FID" \/ with_fid)
  IN [i \in 1..Len(ks) |-> <<ks[i], value(ks[i])>>]

\* what may be wrong with one record of a list: nothing, a key it lacks, or a
\* required key that carries None
NoDefect == [pos |-> 0, kind |-> "none", key |-> "none"]
Defects(n, kinds) ==
  {NoDefect}
  \cup [pos : 1..n, kind : kinds \cap {"missing"}, key : Range(SUPPORTED_KEYS)]
  \cup [pos : 1..n, kind : kinds \cap {"null"}, key : RequiredKeys]

WithDefect(link, i, defect) ==
  IF defect.pos # i THEN link
  ELSE IF defect.kind = "missing"
    THEN SelectSeq(link, LAMBDA kv : kv[1] # defect.key)
  ELSE [j \in 1..Len(link) |->
          IF link[j][1] = defect.key THEN <<link[j][1], None>> ELSE link[j]]

\* a list of n records: the k-th has the ends ends[k], the next unused edge
\* id and the id of the k-th feature; one record may have a defect
MakeLinks(n, order, with_fid, ends, defect) ==
  [i \in 1..n |->
     WithDefect(MakeLink(order, with_fid, ends[i][1], ends[i][2],
                         Len(edges) + i, FeatureId(Len(edges) + i)), i, defect)]

\* ------------------------------------------------- behaviour, the builds
\* Graph(direction).from_dicts(data), as GraphHelpers.generate_new_graph
\* calls it: on a Graph that was just constructed
BuildFromDictsOf(kinds) ==
  \E n \in 0..MaxLinks :
    /\ op = "init"
    /\ \E order \in KeyOrders, with_fid \in BOOLEAN,
          ends \in [1..n -> Nodes \X Nodes], defect \in Defects(n, kinds) :
         FromDicts(MakeLinks(n, order, with_fid, ends, defect))

\* lists of records with a key left out or a None value
BuildFromDicts == BuildFromDictsOf({"missing", "null"})

BuildEdgeOps ==
  \E p \in Nodes \X Nodes :
    /\ Len(edges) < MaxLinks
    /\ AddEdge(p[1], p[2], NextPipeId, FeatureId(NextPipeId))

\* GraphHelpers.generate_new_graph passes only links whose PARCEL_FID is
\* truthy: the k-th link carries the feature id k
Enrich ==
  \E pipe_id \in 1..MaxLinks :
    LET k == SumLen(qgis_parcel_fids, DOMAIN qgis_parcel_fids) + 1
    IN /\ k <= MaxBranches
       /\ AddQgisParcelIds(<<[PIPE_ID |-> pipe_id, PARCEL_FID |-> k]>>)

\* Trace(graph).trace(first): the default predicate, summary=False
TraceOps == \E first \in Nodes : TraceCall(first, {}, FALSE)

Construct == \E d \in DIRECTION : NewGraph(d)

NextDicts ==
  \/ Construct
  \/ BuildFromDicts
  \/ BuildEdgeOps

SpecDicts == Init /\ [][NextDicts]_vars

\* ---------------------------------------------- behaviour, all operations
\* the lists of records the layer provider makes
BuildFromDictsOps == BuildFromDictsOf({})

NextOps ==
  \/ Construct
  \/ BuildFromDictsOps
  \/ BuildEdgeOps
  \/ Enrich
  \/ TraceOps

SpecOps == Init /\ [][NextOps]_vars

\* ============================================================ persistence
\* A file holds a text: a sequence of tokens.  A token is the record
\* [sec, key, idx, val]: section of the document, JSON key (a string),
\* position in the list of that key (0 for the key itself) and value.
Tok(sec, key, idx, val) == [sec |-> sec, key |-> key, idx |-> idx, val |-> val]

\* json writes every dict key as a string: 1 becomes "1", None "null"
JsonKey(k) == IF k = None THEN "null" ELSE ToString(k)

\* sort_keys=True compares the keys of a dict: None and an int do not compare
Sortable(ks) == ~(None \in ks /\ ks # {None})

RECURSIVE SortedSeq(_)
\* sorted(keys)
SortedSeq(ks) ==
  IF ks = {} THEN <<>>
  ELSE LET m == CHOOSE x \in ks : \A y \in ks : x <= y
       IN <<m>> \o SortedSeq(ks \ {m})

RECURSIVE Flatten(_)
Flatten(ss) == IF ss = <<>> THEN <<>> ELSE Head(ss) \o Flatten(Tail(ss))

\* `"__dict__": dict(o)` of _encode_defaultdict as text: for every key, in
\* sorted order, the key with the length of its list, then the items
ListItems(sec, d) ==
  LET ks == SortedSeq(DOMAIN d)
  IN Flatten([j \in 1..Len(ks) |->
        <<Tok(sec, JsonKey(ks[j]), 0, Len(d[ks[j]]))>>
        \o [i \in 1..Len(d[ks[j]]) |-> Tok(sec, JsonKey(ks[j]), i, d[ks[j]][i])]])

\* a plain dict of scalars as text
ScalarItems(sec, d) ==
  LET ks == SortedSeq(DOMAIN d)
  IN [j \in 1..Len(ks) |-> Tok(sec, JsonKey(ks[j]), 0, d[ks[j]])]

\* ExtendedEncoder._encode_defaultdict: the factory, then the dict
encode_defaultdict(sec, d) ==
  <<Tok(sec, "__default_factory__", 0, 0), Tok(sec, "_type:list", 0, 0)>>
  \o ListItems(sec, d)

OpenTok == Tok("{", "Graph", 0, 0)
CloseTok == Tok("}", "Graph", 0, 0)

\* json.dump(self, f, cls=ExtendedEncoder, sort_keys=True) with
\* ExtendedEncoder._encode_Graph: direction, nodes, pipes and qgis_fids, in
\* the order of the sorted keys.  The text is written as it is produced, so
\* a TypeError of the sort leaves the text written so far.
Dump(g) ==
  LET head == <<OpenTok, Tok("_direction", g.direction, 0, 0)>>
  IN IF ~Sortable(DOMAIN g.nodes)
       THEN [text |-> head \o <<Tok("_nodes", "__default_factory__", 0, 0),
                                 Tok("_nodes", "_type:list", 0, 0)>>,
             err |-> "TypeError"]
     ELSE IF ~Sortable(DOMAIN g.pipes)
       THEN [text |-> head \o encode_defaultdict("_nodes", g.nodes)
                           \o <<Tok("_pipes", "__default_factory__", 0, 0),
                                Tok("_pipes", "_type:list", 0, 0)>>,
             err |-> "TypeError"]
     ELSE IF ~Sortable(DOMAIN g.qgis_fids)
       THEN [text |-> head \o encode_defaultdict("_nodes", g.nodes)
                           \o encode_defaultdict("_pipes", g.pipes),
             err |-> "TypeError"]
     ELSE [text |-> head \o encode_defaultdict("_nodes", g.nodes)
                         \o encode_defaultdict("_pipes", g.pipes)
                         \o ScalarItems("_qgis_fids", g.qgis_fids)
                         \o <<CloseTok>>,
           err |-> "none"]

\* Graph.to_file: Path(filename).open("w") raises OSError when the path
\* cannot be opened for writing, and truncates the file when it can
to_file(fs, ws, g, filename) ==
  IF filename \notin ws THEN [files |-> fs, err |-> "OSError"]
  ELSE LET r == Dump(g)
       IN [files |-> [x \in (DOMAIN fs) \cup {filename} |->
                        IF x = filename THEN r.text ELSE fs[x]],
           err |-> r.err]

\* no Graph object: what a call that raised leaves its caller with
NoGraph == NewGraphValue("none")

FactoryKeys == {"__default_factory__", "_type:list"}

\* json.load accepts a text that is one complete document: it opens and
\* closes once, and every list holds the items its key announces
Complete(text) ==
  LET n == Len(text)
  IN /\ n >= 2
     /\ text[1] = OpenTok
     /\ text[n] = CloseTok
     /\ \A i \in 2..(n - 1) : text[i].sec \notin {"{", "}"}
     /\ \A i \in 2..(n - 1) :
          IF text[i].idx > 0
            THEN /\ text[i - 1].sec = text[i].sec
                 /\ text[i - 1].key = text[i].key
                 /\ text[i - 1].idx = text[i].idx - 1
          ELSE (text[i].sec \in {"_nodes", "_pipes"}
                  /\ text[i].key \notin FactoryKeys) =>
                 /\ i + text[i].val <= n - 1
                 /\ text[i + text[i].val].idx = text[i].val
                 /\ text[i + text[i].val + 1].idx = 0

SectionKeys(text, sec) ==
  {text[i].key : i \in {j \in 1..Len(text) :
      text[j].sec = sec /\ text[j].idx = 0 /\ text[j].key \notin FactoryKeys}}

TokenAt(text, sec, key, idx) ==
  text[CHOOSE i \in 1..Len(text) :
         text[i].sec = sec /\ text[i].key = key /\ text[i].idx = idx]

\* the dict of a section: its keys are the strings of the text
SectionLists(text, sec) ==
  [k \in SectionKeys(text, sec) |->
     [i \in 1..TokenAt(text, sec, k, 0).val |-> TokenAt(text, sec, k, i).val]]

SectionScalars(text, sec) ==
  [k \in SectionKeys(text, sec) |-> TokenAt(text, sec, k, 0).val]

\* the default-factory object of a section is in the text, whole
HasFactory(text, sec) ==
  \E i \in 1..(Len(text) - 1) :
     /\ text[i] = Tok(sec, "__default_factory__", 0, 0)
     /\ text[i + 1] = Tok(sec, "_type:list", 0, 0)

\* the classes the builtins module holds, by name
Builtins == {"list", "dict", "set", "tuple", "int", "str"}

\* `type(getattr(builtins, b)).__name__`: the name of the type of a class
TypeName(b) == "type"

\* ExtendedDecoder._decode_type, lines 320-327: possible_types is keyed by
\* the name of the type of every builtin class, and
\* possible_types[obj["_type"]] raises KeyError for a name it does not hold
possible_types == {TypeName(b) : b \in Builtins}
decode_type(name) == IF name \in possible_types THEN "none" ELSE "KeyError"

\* json.load(f, cls=ExtendedDecoder): the object hook runs on every object
\* of the document as soon as it is complete, in the order of the text:
\* the direction, then the default factory of _nodes, then _nodes, ...
\* A text cut short after a default factory raises KeyError before the
\* parser reaches its end.
Loads(text) ==
  IF text = <<>> \/ text[1] # OpenTok
    THEN [g |-> NoGraph, err |-> "JSONDecodeError"]
  ELSE IF Len(text) >= 2 /\ text[2].sec = "_direction"
            /\ text[2].key \notin DIRECTION
    THEN [g |-> NoGraph, err |-> "ValueError"]
  ELSE IF \E sec \in {"_nodes", "_pipes"} :
            HasFactory(text, sec) /\ decode_type("list") # "none"
    THEN [g |-> NoGraph, err |-> "KeyError"]
  ELSE IF ~Complete(text) THEN [g |-> NoGraph, err |-> "JSONDecodeError"]
  ELSE IF text[2].sec # "_direction" \/ text[2].key \notin DIRECTION
    THEN [g |-> NoGraph, err |-> "ValueError"]
  ELSE [g |-> [direction |-> text[2].key,
               nodes |-> SectionLists(text, "_nodes"),
               pipes |-> SectionLists(text, "_pipes"),
               qgis_fids |-> SectionScalars(text, "_qgis_fids"),
               qgis_parcel_fids |-> EmptyDict],
        err |-> "none"]

\* Graph.from_file: Path(filename).open() raises when there is no such file
from_file(fs, filename) ==
  IF filename \notin DOMAIN fs THEN [g |-> NoGraph, err |-> "FileNotFoundError"]
  ELSE Loads(fs[filename])

\* ================================================================ cache
\* a layer is known by its source: a directory and a base name
Layer(dir, base) == [dir |-> dir, base |-> base]
PipeLayer == Layer("/data", "pipes.shp")
BranchLayer == Layer("/data", "branches.shp")
ParcelLayer == Layer("/data", "parcels.shp")

\* the layer lists of the two algorithms: pipes, or pipes, branches, parcels
PipesOnly == <<PipeLayer>>
WithParcels == <<PipeLayer, BranchLayer, ParcelLayer>>
LayerLists == {PipesOnly, WithParcels}
Basenames == {PipeLayer.base, BranchLayer.base, ParcelLayer.base}

\* direction.name of the enum member whose value is d
DirectionName(d) == IF d = U THEN "U" ELSE "D"

\* the last eight characters of str(hex(abs(hash(s)))): hex digits
HexTails == {"1f2e3d4c", "0a0b0c0d"}

\* hash() of a str depends on the seed the process drew when it started:
\* a seed is the map from strings to hash values of one process
Seeds == [Basenames -> HexTails]

\* LayerMeta.get_layer_source_hash, in a process with seed sd
get_layer_source_hash(sd, layer) == sd[layer.base]

RECURSIVE Join(_, _)
\* sep.join(parts)
Join(parts, sep) ==
  IF parts = <<>> THEN ""
  ELSE IF Len(parts) = 1 THEN parts[1]
  ELSE parts[1] \o sep \o Join(Tail(parts), sep)

\* a file name without the direction
get_graph_file_name_NoDirection(hashes, d) == Join(hashes, "-") \o ".json"

\* GraphHelpers.get_graph_file_name
get_graph_file_name(hashes, d) ==
  Join(hashes \o <<DirectionName(d)>>, "-") \o ".json"

\* GraphHelpers.get_default_graph_path
get_default_graph_path(sd, layers, d) ==
  LET hashes == [i \in 1..Len(layers) |-> get_layer_source_hash(sd, layers[i])]
  IN layers[1].dir \o "/" \o get_graph_file_name(hashes, d)

\* layer.customProperty(value=key, defaultValue="")
customProperty(ps, key) == IF key \in DOMAIN ps THEN ps[key] ELSE ""

\* the key get_graph_path_custom_property reads
ReadKey(layers, d) ==
  "gwwnetworktrace_" \o DirectionName(d) \o ToString(Len(layers)) \o "_graph"

\* the key add_graph_to_layer writes
WriteKey(d) == "gwwnetworktrace_" \o DirectionName(d) \o "_graph"

\* GraphHelpers.get_graph_path_custom_property
get_graph_path_custom_property(ps, layers, d) ==
  customProperty(ps, ReadKey(layers, d))

\* GraphHelpers.get_possible_graph_paths
get_possible_graph_paths(ps, sd, layers, d) ==
  <<get_graph_path_custom_property(ps, layers, d),
    get_default_graph_path(sd, layers, d)>>

\* os.path.isfile(path)
isfile(fs, path) == path \in DOMAIN fs

\* the candidates tried from the last to the first
find_graph_file_DefaultFirst(fs, ps, sd, layers, d) ==
  LET paths == get_possible_graph_paths(ps, sd, layers, d)
  IN IF isfile(fs, paths[2]) THEN paths[2]
     ELSE IF isfile(fs, paths[1]) THEN paths[1]
     ELSE ""

\* GraphHelpers.find_graph_file
find_graph_file(fs, ps, sd, layers, d) ==
  LET paths == get_possible_graph_paths(ps, sd, layers, d)
  IN IF isfile(fs, paths[1]) THEN paths[1]
     ELSE IF isfile(fs, paths[2]) THEN paths[2]
     ELSE ""

\* the outcome of save_graph: the file system, the path returned, the
\* to_file calls made and whether the error was reported
Saved(fs, path, attempts, reported) ==
  [files |-> fs, path |-> path, attempts |-> attempts, reported |-> reported,
   err |-> "none"]

Attempt(path, e) == [path |-> path, err |-> e]

\* save_graph that lets the exception of a failed write through
save_graph_Raising(fs, ws, ps, sd, layers, g) ==
  LET paths == get_possible_graph_paths(ps, sd, layers, g.direction)
      r1 == to_file(fs, ws, g, paths[1])
  IN [Saved(r1.files, IF r1.err = "none" THEN paths[1] ELSE "",
            <<Attempt(paths[1], r1.err)>>, FALSE) EXCEPT !.err = r1.err]

\* GraphHelpers.save_graph: lines 98-109
save_graph(fs, ws, ps, sd, layers, g) ==
  LET paths == get_possible_graph_paths(ps, sd, layers, g.direction)
      r1 == to_file(fs, ws, g, paths[1])
      r2 == to_file(r1.files, ws, g, paths[2])
  IN IF r1.err = "none"
       THEN Saved(r1.files, paths[1], <<Attempt(paths[1], r1.err)>>, FALSE)
     ELSE IF r2.err = "none"
       THEN Saved(r2.files, paths[2],
                  <<Attempt(paths[1], r1.err), Attempt(paths[2], r2.err)>>, FALSE)
     ELSE Saved(r2.files, "",
                <<Attempt(paths[1], r1.err), Attempt(paths[2], r2.err)>>, TRUE)

\* GraphHelpers.add_graph_to_layer: layers[0].setCustomProperty(key, value)
add_graph_to_layer(ps, g, graph_path) ==
  SetItem(ps, WriteKey(g.direction), graph_path)

\* `parcels_info = {p["GID"]: p["QGIS_FID"] for p in parcel_data}` and
\* parcels_info.get(gid)
parcels_info_get(parcel_data, gid) ==
  LET is == {i \in 1..Len(parcel_data) : parcel_data[i].GID = gid}
  IN IF is = {} THEN None
     ELSE parcel_data[CHOOSE i \in is : \A j \in is : j <= i].QGIS_FID

\* the branch links whose parcel has a truthy feature id: lines 42-46
branch_info(branch_data, parcel_data) ==
  LET kept == SelectSeq(branch_data, LAMBDA b :
                Truthy(parcels_info_get(parcel_data, b.PRCL_GID)))
  IN [i \in 1..Len(kept) |->
        [PIPE_ID |-> kept[i].PIPE_ID,
         PARCEL_FID |-> parcels_info_get(parcel_data, kept[i].PRCL_GID)]]

\* GraphHelpers.generate_new_graph; data holds the records of the layers
generate_new_graph(layers, d, data) ==
  LET r == from_dicts(NewGraphValue(d), data.pipes)
  IN IF r.err # "none" THEN [g |-> NoGraph, err |-> r.err]
     ELSE IF Len(layers) = 3
       THEN [g |-> add_qgis_parcel_ids(r.g,
                     branch_info(data.branches, data.parcels)),
             err |-> "none"]
     ELSE [g |-> r.g, err |-> "none"]

\* what get_layer_graph did: the file system and the properties it leaves,
\* the graph it returns or the exception it raises, the path the lookup
\* found, the collaborators it called and the outcome of save_graph
Got(fs, ps, g, e, found, log, sv) ==
  [files |-> fs, props |-> ps, g |-> g, err |-> e, found |-> found,
   log |-> log, saved |-> sv]

NotSaved == Saved(EmptyDict, "", <<>>, FALSE)

\* a get_layer_graph that rebuilds and saves whether a file is found or not
get_layer_graph_AlwaysBuild(fs, ws, ps, sd, layers, d, force, data) ==
  LET graph_path == find_graph_file(fs, ps, sd, layers, d)
      b == generate_new_graph(layers, d, data)
      sv == save_graph(fs, ws, ps, sd, layers, b.g)
  IN IF b.err # "none"
       THEN Got(fs, ps, NoGraph, b.err, graph_path,
                <<"find", "build">>, NotSaved)
     ELSE Got(sv.files, add_graph_to_layer(ps, b.g, sv.path),
              b.g, "none", graph_path,
              <<"find", "build", "save", "add">>, sv)

\* GraphHelpers.get_layer_graph: lines 132-145
get_layer_graph(fs, ws, ps, sd, layers, d, force, data) ==
  LET graph_path == find_graph_file(fs, ps, sd, layers, d)
  IN IF graph_path # "" /\ ~force
       THEN LET r == from_file(fs, graph_path)
            IN IF r.err # "none"
                 THEN Got(fs, ps, NoGraph, r.err, graph_path,
                          <<"find", "load">>, NotSaved)
               ELSE Got(fs, add_graph_to_layer(ps, r.g, graph_path), r.g,
                        "none", graph_path, <<"find", "load", "add">>, NotSaved)
     ELSE LET b == generate_new_graph(layers, d, data)
          IN IF b.err # "none"
               THEN Got(fs, ps, NoGraph, b.err, graph_path,
                        <<"find", "build">>, NotSaved)
             ELSE LET sv == save_graph(fs, ws, ps, sd, layers, b.g)
                  IN IF sv.err # "none"
                       THEN Got(sv.files, ps, NoGraph, sv.err, graph_path,
                                <<"find", "build", "save">>, sv)
                     ELSE Got(sv.files, add_graph_to_layer(ps, b.g, sv.path),
                              b.g, "none", graph_path,
                              <<"find", "build", "save", "add">>, sv)

\* ------------------------------------------- behaviour, save and reload
\* graph.to_file(filename)
SaveToFile(filename) ==
  /\ NoTraceRunning
  /\ err = "none"
  /\ \E r \in {to_file(files, writable, self, filename)} :
       /\ files' = r.files
       /\ ret' = [op |-> "to_file", err |-> r.err, path |-> filename,
                  g |-> NoGraph]
  /\ UNCHANGED <<graphVars, callVars, traceVars, edges,
                 writable, props, seed, writers>>

\* Graph.from_file(filename)
LoadFromFile(filename) ==
  /\ NoTraceRunning
  /\ \E r \in {from_file(files, filename)} :
       ret' = [op |-> "from_file", err |-> r.err, path |-> filename,
               g |-> r.g]
  /\ UNCHANGED <<graphVars, callVars, traceVars, edges,
                 files, writable, props, seed, writers>>

FilePaths == {"graph.json"}

InitFile ==
  /\ GraphInit
  /\ files = EmptyDict
  /\ writable \in SUBSET FilePaths
  /\ props = EmptyDict
  /\ seed = 0
  /\ ret = NoReturn
  /\ writers = EmptyDict

\* a graph built by from_dicts is written, and the file is read back
Save == \E f \in FilePaths : op = "from_dicts" /\ SaveToFile(f)
Load == \E f \in FilePaths : op = "from_dicts" /\ LoadFromFile(f)

NextFile ==
  \/ BuildFromDictsOps
  \/ Save
  \/ Load

SpecFile == InitFile /\ [][NextFile]_vars

\* ------------------------------------------------- behaviour, the cache
\* the records of the pipe layer: LayerData.get_trace_data(fids=True)
PipeRecords(ends, defect) ==
  MakeLinks(Len(ends), ProviderOrder, TRUE, ends, defect)

\* two parcels, and three branch links: to the first parcel (feature id 0),
\* to the second, and to a parcel the parcel layer does not hold
ParcelData ==
  <<[GID |-> 1, QGIS_FID |-> FeatureId(1)], [GID |-> 2, QGIS_FID |-> FeatureId(2)]>>
BranchData ==
  <<[PIPE_ID |-> 1, PRCL_GID |-> 1], [PIPE_ID |-> 1, PRCL_GID |-> 2],
    [PIPE_ID |-> 2, PRCL_GID |-> 3]>>

Data(ends, defect) ==
  [pipes |-> PipeRecords(ends, defect), branches |-> BranchData,
   parcels |-> ParcelData]

\* a pipe whose START_NODE attribute is NULL
NullStart == [pos |-> 1, kind |-> "null", key |-> "START_NODE"]

\* what the layers may hold when get_layer_graph is called
SourceData ==
  {Data(ScenarioTree, NoDefect), Data(ScenarioCycle, NoDefect),
   Data(ScenarioTree, NullStart)}

\* a location a layer property may name
PointerPath == "/cache/graph.json"

CacheSeed == CHOOSE sd \in Seeds : TRUE
DefaultPaths ==
  {get_default_graph_path(CacheSeed, ls, d) : ls \in LayerLists, d \in DIRECTION}
ReadKeys == {ReadKey(ls, d) : ls \in LayerLists, d \in DIRECTION}

\* a text that was cut short
Garbage == <<OpenTok>>

\* a document of another writer: a Graph whose mappings are plain objects
PlainText ==
  <<OpenTok, Tok("_direction", U, 0, 0),
    Tok("_nodes", "2", 0, 1), Tok("_nodes", "2", 1, 1),
    Tok("_pipes", "2", 0, 1), Tok("_pipes", "2", 1, 1), CloseTok>>

CacheIdle == [op |-> "none", err |-> "none", n |-> 0]

\* the environment get_layer_graph starts in: the properties may name a
\* location, files may exist at the candidate locations, and directories
\* may be read-only
InitCache ==
  /\ GraphInit /\ direction = U
  /\ seed = CacheSeed
  /\ props \in {EmptyDict, [k \in ReadKeys |-> PointerPath]}
  /\ writable \in {{}, {PointerPath}, DefaultPaths, DefaultPaths \cup {PointerPath}}
  /\ files \in {EmptyDict,
                [f \in {PointerPath} |-> Garbage],
                [f \in {PointerPath} |-> PlainText],
                [f \in DefaultPaths |-> Garbage]}
  /\ ret = CacheIdle
  /\ writers = EmptyDict

\* GraphHelpers.get_layer_graph(feedback, layers, direction, force)
GetLayerGraph(layers, d, force, data) ==
  /\ ret.n < MaxCalls
  /\ \E r \in {get_layer_graph(files, writable, props, seed, layers, d,
                               force, data)} :
       /\ files' = r.files
       /\ props' = r.props
       /\ ret' = [op |-> "get_layer_graph", err |-> r.err, g |-> r.g,
                  found |-> r.found, log |-> r.log,
                  saved |-> [path |-> r.saved.path,
                             attempts |-> r.saved.attempts,
                             reported |-> r.saved.reported],
                  layers |-> layers, direction |-> d, force |-> force,
                  data |-> data, n |-> ret.n + 1]
  /\ UNCHANGED <<graphVars, callVars, traceVars, edges, writable, seed, writers>>

Query ==
  \E layers \in LayerLists, d \in DIRECTION, force \in BOOLEAN,
     data \in SourceData :
    GetLayerGraph(layers, d, force, data)

NextCache == Query

SpecCache == InitCache /\ [][NextCache]_vars

\* ============================================================ properties
\* --------------------------------------------------- the claims' vocabulary
\* the edge records of a list of (start, end) pairs, with ids 1, 2, ...
EdgeRecords(pairs) ==
  [k \in 1..Len(pairs) |->
     [start_node |-> pairs[k][1], end_node |-> pairs[k][2], pipe_id |-> k]]

\* the endpoint an edge is traversed from, and the one it leads to
NearEnd(e) == IF direction = U THEN e.end_node ELSE e.start_node
FarEnd(e) == IF direction = U THEN e.start_node ELSE e.end_node

EdgeSet == Range(edges)

\* the nodes one edge away from a node of S, in the direction of the graph
Successors(S) == {FarEnd(e) : e \in {x \in EdgeSet : NearEnd(x) \in S}}

RECURSIVE ReachableFrom(_)
\* the nodes reachable from the nodes of S, S included
ReachableFrom(S) ==
  LET T == S \cup Successors(S)
  IN IF T = S THEN S ELSE ReachableFrom(T)

\* the ids of the edges traversed from a node of S
PipesFrom(S) == {e.pipe_id : e \in {x \in EdgeSet : NearEnd(x) \in S}}

HasOutgoing(n) == \E e \in EdgeSet : NearEnd(e) = n
Occurs(n) == \E e \in EdgeSet : e.start_node = n \/ e.end_node = n

Returned == pc = "done"
DefaultPredicate == stop_node = {}
TheHalted == CHOOSE x \in halted : TRUE

\* ----------------------------------------------------------------------
\* C1: with the default stop predicate the result's nodes are exactly the
\* nodes reachable from the start node (itself included) and its pipes are
\* exactly the ids of the edges whose traversal-side endpoint is reachable;
\* the two documented scenarios on 1:A->B, 2:B->C, 3:B->D give the
\* documented results.
C1_ReachableSets ==
  (Returned /\ DefaultPredicate) =>
    /\ result.nodes = ReachableFrom({first_node})
    /\ result.pipes = PipesFrom(ReachableFrom({first_node}))
    /\ (edges = EdgeRecords(ScenarioTree) /\ direction = D /\ first_node = Named.A) =>
         /\ result.pipes = {1, 2, 3}
         /\ result.nodes = {Named.A, Named.B, Named.C, Named.D}
         /\ result.end_of_path_nodes = {Named.C, Named.D}
    /\ (edges = EdgeRecords(ScenarioTree) /\ direction = U /\ first_node = Named.C) =>
         /\ result.pipes = {1, 2}
         /\ result.nodes = {Named.C, Named.B, Named.A}
         /\ result.end_of_path_nodes = {Named.A}

C1_Witness ==
  /\ Returned /\ DefaultPredicate
  /\ edges = EdgeRecords(ScenarioTree) /\ direction = U /\ first_node = Named.C
  /\ result.nodes = {Named.A, Named.B, Named.C}

\* ----------------------------------------------------------------------
\* the work the running trace has left: the entries on the stack plus the
\* adjacency entries of the nodes not yet visited
Measure ==
  Len(node_queue)
  + SumLen(nodes, {n \in DOMAIN nodes : n \notin nodes_visited})

PoppedNext == node_queue[Len(node_queue)]

\* C2: the trace terminates on every finite graph, cycles, self-loops and
\* parallel edges included: every iteration of the loop strictly decreases
\* the natural number Measure, so the loop runs at most 1 + (number of
\* edges) times; each node is expanded at most once; popping an already
\* visited node pushes nothing and adds no pipe; on the cycle A->B->C->A the
\* default trace returns nodes = {A, B, C} from each of the three nodes.
C2_Terminates ==
  /\ [][TraceStep => (Measure' < Measure /\ Measure' >= 0)]_vars
  /\ [](\A i, j \in 1..Len(expanded) : expanded[i] = expanded[j] => i = j)
  /\ [][(TraceStep /\ PoppedNext \in nodes_visited
                   /\ StopPredicate(stop_node, PoppedNext)) =>
          /\ node_queue' = SubSeq(node_queue, 1, Len(node_queue) - 1)
          /\ pipes_visited' = pipes_visited
          /\ expanded' = expanded]_vars
  /\ []((Returned /\ DefaultPredicate /\ edges = EdgeRecords(ScenarioCycle)
           /\ first_node \in {Named.A, Named.B, Named.C}) => result.nodes = {Named.A, Named.B, Named.C})

C2_Witness ==
  /\ Returned /\ DefaultPredicate
  /\ edges = EdgeRecords(ScenarioCycle) /\ first_node = Named.B
  /\ result.nodes = {Named.A, Named.B, Named.C}
  /\ Len(expanded) = 3

\* ----------------------------------------------------------------------
\* C3 as stated: after a hard stop at X, every node still on the stack that
\* was not expanded earlier is absent from the result's nodes.
C3_HardStop_Original ==
  (Returned /\ halted # {}) =>
    \A n \in Range(node_queue) : n \notin Range(expanded) => n \notin result.nodes

\* C3 (amended): when the stop predicate rejects the popped node X, X is
\* added to nodes and end_of_path_nodes and the traversal ends at once: no
\* further node is popped or added to nodes, and every node other than X
\* still on the stack that was not expanded earlier is absent from the
\* result's nodes, also when another branch reaches it.
C3_HardStop ==
  /\ [](halted # {} =>
          /\ pc \in {"return", "done"}
          /\ TheHalted \in nodes_visited
          /\ TheHalted \in end_of_path_nodes
          /\ nodes_visited = Range(expanded) \cup {TheHalted}
          /\ \A n \in Range(node_queue) \ {TheHalted} :
               n \notin Range(expanded) => n \notin nodes_visited
          /\ Returned => /\ result.nodes = nodes_visited
                         /\ result.end_of_path_nodes = end_of_path_nodes)
  /\ [][(halted # {} /\ halted' # {}) =>
          UNCHANGED <<node_queue, nodes_visited, end_of_path_nodes,
                      pipes_visited, expanded>>]_vars

\* a hard stop that leaves on the stack an unexpanded node which another
\* branch reaches from the start node
C3_Witness ==
  /\ Returned /\ halted # {}
  /\ \E n \in Range(node_queue) \ halted :
       /\ n \notin result.nodes
       /\ n \in ReachableFrom({first_node})
  /\ Len(expanded) >= 1

\* ----------------------------------------------------------------------
\* C4: end_of_path_nodes is exactly the expanded nodes without outgoing
\* adjacency plus the node the stop predicate rejected (if any): every dead
\* end that is reached is in it, it is a subset of nodes, and at most one of
\* its members has outgoing adjacency.
C4_EndOfPath ==
  Returned =>
    /\ result.end_of_path_nodes =
         {n \in Range(expanded) : ~HasOutgoing(n)} \cup halted
    /\ \A n \in result.nodes : ~HasOutgoing(n) => n \in result.end_of_path_nodes
    /\ result.end_of_path_nodes \subseteq result.nodes
    /\ Cardinality({n \in result.end_of_path_nodes : HasOutgoing(n)}) <= 1
    /\ Cardinality(halted) <= 1

\* a result whose ends of path are an expanded dead end and the rejected
\* node
C4_Witness ==
  /\ Returned /\ halted # {}
  /\ Cardinality(result.end_of_path_nodes) = 2
  /\ \E n \in result.end_of_path_nodes \cap Range(expanded) : ~HasOutgoing(n)

\* ----------------------------------------------------------------------
\* C5: with or without a hard stop, the result's pipes are the union of
\* pipes[n] over exactly the expanded nodes n; the pipes of the rejected
\* node and of the nodes left unexpanded on the stack are not among them.
C5_PipesOfExpanded ==
  Returned =>
    /\ result.pipes = UNION {Range(Lookup(pipes, n)) : n \in Range(expanded)}
    /\ result.pipes = PipesFrom(Range(expanded))
    /\ \A n \in (halted \cup Range(node_queue)) \ Range(expanded) :
         Range(Lookup(pipes, n)) \cap result.pipes = {}

\* a hard stop at a node with pipes, after a node with pipes was expanded
C5_Witness ==
  /\ Returned /\ halted # {}
  /\ Lookup(pipes, TheHalted) # <<>>
  /\ result.pipes # {}

\* ----------------------------------------------------------------------
\* C6: a trace from a node that does not occur in the graph is no error:
\* with the default predicate it returns nodes = {start}, end_of_path_nodes
\* = {start} and no pipes, on every graph, the empty one included.
C6_UnknownStart ==
  (Returned /\ DefaultPredicate /\ ~Occurs(first_node)) =>
    /\ err = "none"
    /\ result.nodes = {first_node}
    /\ result.end_of_path_nodes = {first_node}
    /\ result.pipes = {}

C6_Witness ==
  /\ Returned /\ DefaultPredicate /\ ~Occurs(first_node)
  /\ Len(edges) = MaxEdges
  /\ first_node \notin DOMAIN qgis_fids
  /\ result.nodes = {first_node}

\* ----------------------------------------------------------------------
\* what the build is to do, read off the claim
\* appending v to the sequence a mapping holds for k
SeqAppended(d, k, v) ==
  [n \in (DOMAIN d) \cup {k} |->
     IF n = k THEN Append(IF k \in DOMAIN d THEN d[k] ELSE <<>>, v) ELSE d[n]]

ExpectedNodes(ns, dir, start_node, end_node) ==
  IF dir = U THEN SeqAppended(ns, end_node, start_node)
  ELSE SeqAppended(ns, start_node, end_node)

ExpectedPipes(ps, dir, start_node, end_node, pipe_id) ==
  IF dir = U THEN SeqAppended(ps, end_node, pipe_id)
  ELSE SeqAppended(ps, start_node, pipe_id)

RECURSIVE ExpectedBuild(_, _, _, _)
\* the two mappings after the records of recs were appended in order
ExpectedBuild(ns, ps, dir, recs) ==
  IF recs = <<>> THEN <<ns, ps>>
  ELSE LET r == Head(recs)
           s == GetItem(r, "START_NODE")
           e == GetItem(r, "END_NODE")
           id == GetItem(r, "PIPE_ID")
       IN ExpectedBuild(ExpectedNodes(ns, dir, s, e),
                        ExpectedPipes(ps, dir, s, e, id), dir, Tail(recs))

AllRequired(recs) ==
  \A i \in 1..Len(recs) : \A k \in RequiredKeys : HasKey(recs[i], k)

SameKeys(recs) ==
  \A i, j \in 1..Len(recs) : Range(KeysOf(recs[i])) = Range(KeysOf(recs[j]))

Malformed(recs) ==
  \E i \in 1..Len(recs) : \E k \in RequiredKeys :
    ~HasKey(recs[i], k) \/ GetItem(recs[i], k) = None

\* C7: the build follows the direction.  add_edge on an Upstream graph
\* appends start_node to nodes[end_node] and the id to pipes[end_node], on a
\* Downstream graph end_node to nodes[start_node] and the id to
\* pipes[start_node], and changes nothing else in the two mappings;
\* from_dicts does so for every record in input order, taking the values of
\* START_NODE, END_NODE and PIPE_ID whatever the key order of the records.
C7_BuildFollowsDirection ==
  [][/\ op' = "add_edge" =>
          LET e == edges'[Len(edges')]
          IN /\ direction' = direction
             /\ nodes' = ExpectedNodes(nodes, direction, e.start_node, e.end_node)
             /\ pipes' = ExpectedPipes(pipes, direction, e.start_node,
                                       e.end_node, e.pipe_id)
     /\ (op' = "from_dicts" /\ AllRequired(input')) =>
          /\ (input' # <<>> /\ SameKeys(input')) => err' = "none"
          /\ err' = "none" =>
               /\ direction' = direction
               /\ <<nodes', pipes'>> =
                    ExpectedBuild(nodes, pipes, direction, input')
    ]_vars

\* an upstream build from two records in the provider's key order
C7_Witness ==
  /\ op = "from_dicts" /\ err = "none"
  /\ Len(input) = 2
  /\ KeysOf(input[1]) = ProviderOrder
  /\ direction = U
  /\ \E n \in DOMAIN nodes : Len(nodes[n]) = 2 /\ Len(pipes[n]) = 2

\* ----------------------------------------------------------------------
\* C8: in every state the operations on a Graph reach, nodes and pipes have
\* the same keys and, for every key n, the same length, and the i-th
\* neighbour in nodes[n] is the far end of the edge whose id is the i-th
\* entry of pipes[n].
C8_Aligned ==
  /\ DOMAIN nodes = DOMAIN pipes
  /\ \A n \in DOMAIN nodes :
       /\ Len(nodes[n]) = Len(pipes[n])
       /\ \A i \in 1..Len(nodes[n]) :
            \E e \in EdgeSet :
              /\ e.pipe_id = pipes[n][i]
              /\ NearEnd(e) = n
              /\ FarEnd(e) = nodes[n][i]

\* a graph that was built, enriched and traced: a key with two entries and a
\* key a trace inserted
C8_Witness ==
  /\ Returned
  /\ qgis_parcel_fids # EmptyDict
  /\ \E n \in DOMAIN nodes : Len(nodes[n]) = 2
  /\ \E n \in DOMAIN nodes : nodes[n] = <<>>

\* ----------------------------------------------------------------------
Opposite(d) == IF d = U THEN D ELSE U

Swapped(recs) ==
  [k \in 1..Len(recs) |->
     [start_node |-> recs[k].end_node, end_node |-> recs[k].start_node,
      pipe_id |-> recs[k].pipe_id]]

RECURSIVE Built(_, _)
\* the graph after add_edge was called on g with each record of recs
Built(g, recs) ==
  IF recs = <<>> THEN g
  ELSE LET r == Head(recs)
       IN Built(add_edge(g, r.start_node, r.end_node, r.pipe_id, None),
                Tail(recs))

\* a mapping without the keys that hold an empty list
Stored(d) == [n \in {k \in DOMAIN d : d[k] # <<>>} |-> d[n]]

OneEdge == EdgeRecords(<<<<Named.A, Named.B>>>>)

\* C9: direction symmetry.  The graph built in one direction from an edge
\* list holds the same adjacency and pipes as the graph built in the other
\* direction from the list with start and end swapped in every record; for
\* the single edge 1:A->B an Upstream trace from B and a Downstream trace
\* from A both return pipes = {1}, the first reaching A, the second B.
C9_DirectionSymmetry ==
  LET g == Built(NewGraphValue(Opposite(direction)), Swapped(edges))
  IN /\ Stored(nodes) = g.nodes
     /\ Stored(pipes) = g.pipes
     /\ (Returned /\ DefaultPredicate /\ edges = OneEdge) =>
          /\ (direction = U /\ first_node = Named.B) =>
               result.pipes = {1} /\ result.nodes = {Named.B, Named.A}
          /\ (direction = D /\ first_node = Named.A) =>
               result.pipes = {1} /\ result.nodes = {Named.A, Named.B}

C9_Witness ==
  /\ Returned /\ DefaultPredicate /\ edges = OneEdge
  /\ direction = U /\ first_node = Named.B
  /\ Named.A \in result.nodes

\* ----------------------------------------------------------------------
\* C10: from_dicts rejects malformed input: when a record, the first or a
\* later one, lacks PIPE_ID, START_NODE or END_NODE or carries None for one
\* of them, the call raises and returns no graph.
C10_RejectsMalformed ==
  (op = "from_dicts" /\ Malformed(input)) => err # "none"

\* ----------------------------------------------------------------------
\* the file at path f holds what to_file writes for the Graph in hand
HoldsSelf(f) ==
  /\ f \in DOMAIN files
  /\ Dump(self).err = "none"
  /\ files[f] = Dump(self).text

\* C11: round trip.  For a graph built by from_dicts, from_file applied to
\* the file to_file wrote succeeds and returns a graph equal to it: same
\* direction, adjacency, pipes and feature ids.
C11_RoundTrip ==
  (ret.op = "from_file" /\ op = "from_dicts" /\ err = "none"
     /\ HoldsSelf(ret.path)) =>
    /\ ret.err = "none"
    /\ ret.g.direction = direction
    /\ ret.g.nodes = nodes
    /\ ret.g.pipes = pipes
    /\ ret.g.qgis_fids = qgis_fids

\* ----------------------------------------------------------------------
Queried == ret.op = "get_layer_graph"
Called(name) == name \in Range(ret.log)

\* the graph the builder makes from the source records of the last call
BuiltGraph == generate_new_graph(ret.layers, ret.direction, ret.data)

\* C12: a cache file that cannot be loaded is a cache miss.  When the lookup
\* finds a file, force is not set and loading the file fails,
\* get_layer_graph builds the graph from the source records and returns it;
\* the load error does not reach the caller.
C12_LoadFailureIsMiss ==
  (Queried /\ ~ret.force /\ ret.found # ""
     /\ from_file(files, ret.found).err # "none"
     /\ BuiltGraph.err = "none") =>
    /\ ret.err = "none"
    /\ Called("build")
    /\ ret.g = BuiltGraph.g

\* --------------------------------------- behaviour, resolving locations
\* no location resolved yet
PathIdle == [op |-> "none", err |-> "none", prev |-> <<>>]

InitPaths ==
  /\ GraphInit
  /\ files = EmptyDict /\ writable = {} /\ props = EmptyDict
  /\ writers = EmptyDict
  /\ seed \in Seeds
  /\ ret = PathIdle

\* GraphHelpers.get_default_graph_path(layers, direction); the resolution
\* made before it is kept for comparison
Resolve(layers, d) ==
  /\ ret' = [op |-> "get_default_graph_path", err |-> "none",
             layers |-> layers, direction |-> d,
             path |-> get_default_graph_path(seed, layers, d),
             prev |-> IF ret.op = "none" THEN <<>>
                      ELSE <<[layers |-> ret.layers,
                              direction |-> ret.direction,
                              path |-> ret.path]>>]
  /\ UNCHANGED <<graphVars, callVars, traceVars, edges,
                 files, writable, props, seed, writers>>

ResolveAny == \E layers \in LayerLists, d \in DIRECTION : Resolve(layers, d)

\* the host process ends and a new one starts: hash() of a str draws a new
\* seed, everything resolved so far is what the earlier run left behind
Restart ==
  /\ seed' \in Seeds \ {seed}
  /\ UNCHANGED <<graphVars, callVars, traceVars, edges,
                 files, writable, props, ret, writers>>

NextPaths == ResolveAny \/ Restart

SpecPaths == InitPaths /\ [][NextPaths]_vars

\* ------------------------------------ behaviour, two concurrent writers
\* the processes that save, and the cache location both resolve
Writers == {"first", "second"}
RaceLocation == get_default_graph_path(CacheSeed, PipesOnly, U)

\* what the pipe layer held when each builder read it
RaceData ==
  {Data(ScenarioTree, NoDefect), Data(ScenarioCycle, NoDefect),
   Data(SubSeq(ScenarioTree, 1, 1), NoDefect)}

\* a position of the file no write has filled
Hole == Tok("", "", 0, 0)

\* write(2) of toks at offset pos of a file holding text: the bytes before
\* and after the written range stay, a gap before it reads as zeros
WriteAt(text, pos, toks) ==
  LET n == IF Len(text) > pos + Len(toks) THEN Len(text) ELSE pos + Len(toks)
  IN [i \in 1..n |->
        IF i > pos /\ i <= pos + Len(toks) THEN toks[i - pos]
        ELSE IF i <= Len(text) THEN text[i]
        ELSE Hole]

RaceIdle == [op |-> "none", err |-> "none", order |-> <<>>]

InitRace ==
  /\ GraphInit /\ direction = U
  /\ files = EmptyDict
  /\ writable = {RaceLocation}
  /\ props = EmptyDict
  /\ seed = CacheSeed
  /\ ret = RaceIdle
  /\ writers = EmptyDict

\* Graph.to_file, line 115: Path(filename).open("w") truncates the file
\* and gives the process its own offset, 0
OpenFile(w, data) ==
  /\ w \notin DOMAIN writers
  /\ \E b \in {generate_new_graph(PipesOnly, U, data)} :
       /\ b.err = "none"
       /\ Dump(b.g).err = "none"
       /\ writers' = [x \in (DOMAIN writers) \cup {w} |->
                        IF x = w
                          THEN [text |-> Dump(b.g).text, pos |-> 0,
                                open |-> TRUE]
                        ELSE writers[x]]
  /\ files' = [f \in (DOMAIN files) \cup {RaceLocation} |->
                 IF f = RaceLocation THEN <<>> ELSE files[f]]
  /\ UNCHANGED <<graphVars, callVars, traceVars, edges,
                 writable, props, seed, ret>>

\* Graph.to_file, line 116: json.dump writes into the buffer of the open
\* file, which writes a full buffer at the offset of the process
FlushBuffer(w) ==
  /\ w \in DOMAIN writers
  /\ writers[w].open
  /\ Len(writers[w].text) - writers[w].pos > BufferLen
  /\ files' = [files EXCEPT ![RaceLocation] =
                 WriteAt(@, writers[w].pos,
                         SubSeq(writers[w].text, writers[w].pos + 1,
                                writers[w].pos + BufferLen))]
  /\ writers' = [writers EXCEPT ![w].pos = @ + BufferLen]
  /\ UNCHANGED <<graphVars, callVars, traceVars, edges,
                 writable, props, seed, ret>>

\* Graph.to_file, leaving the with block of line 115: the rest of the
\* buffer is written and the file is closed; to_file returns
CloseFile(w) ==
  /\ w \in DOMAIN writers
  /\ writers[w].open
  /\ Len(writers[w].text) - writers[w].pos <= BufferLen
  /\ files' = [files EXCEPT ![RaceLocation] =
                 WriteAt(@, writers[w].pos,
                         SubSeq(writers[w].text, writers[w].pos + 1,
                                Len(writers[w].text)))]
  /\ writers' = [writers EXCEPT ![w].pos = Len(writers[w].text),
                                ![w].open = FALSE]
  /\ ret' = [op |-> "to_file", err |-> "none",
             order |-> Append(ret.order, w)]
  /\ UNCHANGED <<graphVars, callVars, traceVars, edges,
                 writable, props, seed>>

OpenAny == \E w \in Writers, data \in RaceData : OpenFile(w, data)
FlushAny == \E w \in Writers : FlushBuffer(w)
CloseAny == \E w \in Writers : CloseFile(w)

NextRace == OpenAny \/ FlushAny \/ CloseAny

SpecRace == InitRace /\ [][NextRace]_vars

\* ----------------------------------------------------------------------
\* the candidate locations of the call made in this step, in order, as the
\* state before the call gives them
Candidates ==
  get_possible_graph_paths(props, seed, ret'.layers, ret'.direction)

\* the step is a get_layer_graph call that reached save_graph
SaveStep == ret'.op = "get_layer_graph" /\ ret'.n = ret.n + 1
              /\ "save" \in Range(ret'.log)

QueryStep == ret'.op = "get_layer_graph" /\ ret'.n = ret.n + 1

C14_StalePointer ==
  /\ Queried
  /\ customProperty(props, ReadKey(ret.layers, ret.direction)) = PointerPath
  /\ PointerPath \notin DOMAIN files
  /\ ret.found = get_default_graph_path(seed, ret.layers, ret.direction)

\* the location the last call handed to add_graph_to_layer
Recorded == IF Called("save") THEN ret.saved.path ELSE ret.found

\* C15: the cache pointer is a get/set pair over (dataset, direction).
\* After get_layer_graph recorded a location through add_graph_to_layer,
\* get_graph_path_custom_property for the same layers and direction reads
\* back that location, and it is the first lookup candidate.
C15_PointerGetSet ==
  (Queried /\ Called("add")) =>
     /\ get_graph_path_custom_property(props, ret.layers, ret.direction)
          = Recorded
     /\ get_possible_graph_paths(props, seed, ret.layers, ret.direction)[1]
          = Recorded

\* the location holds the serialization of the graph the last call returned
HoldsResult(f) ==
  /\ f \in DOMAIN files
  /\ Dump(ret.g).err = "none"
  /\ files[f] = Dump(ret.g).text

\* C16: with the force flag set, get_layer_graph always rebuilds, and when
\* it completes the default location holds the serialization of the newly
\* built graph and the recorded pointer names a location holding it.
C16_ForceOverwritesBoth ==
  (Queried /\ ret.force /\ ret.err = "none") =>
     /\ Called("build")
     /\ ret.g = BuiltGraph.g
     /\ HoldsResult(get_default_graph_path(seed, ret.layers, ret.direction))
     /\ HoldsResult(customProperty(props, WriteKey(ret.direction)))

C17_Miss ==
  /\ Queried /\ ~ret.force
  /\ ret.found = ""
  /\ ret.err = "none"
  /\ Called("build")
  /\ ret.g = BuiltGraph.g

\* two resolutions have been made, the last one and the one before it
ResolvedTwice == ret.op = "get_default_graph_path" /\ ret.prev # <<>>

\* C18: cache locations are distinct per direction and per topology
\* variant.  For the same layers the Upstream and Downstream locations
\* differ, and a pipes-only list and a pipes+branches+parcels list over the
\* same pipe source resolve to different locations.
C18_DistinctLocations ==
  /\ \A ls \in LayerLists :
       get_default_graph_path(seed, ls, U) # get_default_graph_path(seed, ls, D)
  /\ \A d1, d2 \in DIRECTION :
       get_default_graph_path(seed, PipesOnly, d1)
         # get_default_graph_path(seed, WithParcels, d2)
  /\ ResolvedTwice =>
       /\ (ret.prev[1].layers = ret.layers
             /\ ret.prev[1].direction # ret.direction)
            => ret.prev[1].path # ret.path
       /\ (ret.prev[1].layers # ret.layers
             /\ ret.prev[1].layers[1] = ret.layers[1])
            => ret.prev[1].path # ret.path

\* the same layers resolved for both directions, by a process in which
\* every source name hashes to the same value
C18_Witness ==
  /\ ResolvedTwice
  /\ ret.prev[1].layers = ret.layers
  /\ ret.prev[1].direction # ret.direction
  /\ ret.path = get_default_graph_path(seed, ret.layers, ret.direction)
  /\ \A b1, b2 \in Basenames : seed[b1] = seed[b2]

\* both variants resolved over the same pipe source
C18_Variants ==
  /\ ResolvedTwice
  /\ ret.prev[1].layers = PipesOnly /\ ret.layers = WithParcels
  /\ ret.prev[1].direction = ret.direction

\* C19: the cache location is a deterministic function of the source
\* identifiers, the direction and the variant.  Two resolutions with equal
\* inputs return the same location, in whichever process run they are made.
C19_Deterministic ==
  (ResolvedTwice /\ ret.prev[1].layers = ret.layers
     /\ ret.prev[1].direction = ret.direction)
    => ret.prev[1].path = ret.path

\* both to_file calls have returned
BothFinished == Len(ret.order) = 2 /\ ret.op = "to_file"

\* C20: two builders saving to the same location concurrently are resolved
\* as last writer wins.  Once both to_file calls have finished the location
\* holds exactly the complete serialization written by the one whose write
\* ended last, never a mixture of the two or truncated content.
C20_LastWriterWins ==
  BothFinished => files[RaceLocation] = writers[ret.order[2]].text

\* ------------------------------------------- behaviour, the enrichment
\* the pipes the branch layer links, and the link records made of them
LinkPipes == {BranchData[i].PIPE_ID : i \in 1..Len(BranchData)}
LinkRecords ==
  [PIPE_ID : LinkPipes,
   PARCEL_FID : {ParcelData[i].QGIS_FID : i \in 1..Len(ParcelData)}]

\* lists of no, one or two link records
LinkLists ==
  {<<>>} \cup {<<a>> : a \in LinkRecords}
         \cup {<<a, b>> : a \in LinkRecords, b \in LinkRecords}

\* no enrichment call made yet
LinksIdle == [op |-> "none", err |-> "none", branches_info |-> <<>>, n |-> 0]

InitLinks ==
  /\ GraphInit
  /\ files = EmptyDict /\ writable = {} /\ props = EmptyDict
  /\ seed = 0 /\ writers = EmptyDict
  /\ ret = LinksIdle

\* Graph(direction).from_dicts(data) on the records of a documented network
BuildScenario ==
  \E sc \in Scenarios : op = "init" /\ FromDicts(PipeRecords(sc, NoDefect))

\* graph.add_qgis_parcel_ids(branches_info) on a built graph; the argument
\* is kept for comparison
AttachLinks(branches_info) ==
  /\ NoTraceRunning
  /\ err = "none"
  /\ op # "init"
  /\ ret.n < MaxCalls
  /\ Assign(add_qgis_parcel_ids(self, branches_info))
  /\ op' = "add_qgis_parcel_ids" /\ input' = <<>> /\ err' = "none"
  /\ pc' = "idle" /\ TraceIdle
  /\ ret' = [op |-> "add_qgis_parcel_ids", err |-> "none",
             branches_info |-> branches_info, n |-> ret.n + 1]
  /\ UNCHANGED <<edges, files, writable, props, seed, writers>>

AttachAny == \E branches_info \in LinkLists : AttachLinks(branches_info)

NextLinks == BuildScenario \/ AttachAny

SpecLinks == InitLinks /\ [][NextLinks]_vars

\* --------------------------------------- behaviour, traces with summary
\* Trace(graph, stop).trace(first, summary=summary) on a built graph
TraceAny ==
  \E first \in TraceNodes, stop \in StopNodes, summary \in BOOLEAN :
    op # "init" /\ TraceCall(first, stop, summary)

NextSummary == BuildScenario \/ TraceAny

SpecSummary == Init /\ [][NextSummary]_vars

\* ------------------------------- behaviour, the cache of an edited layer
\* no cache file and no pointer yet; the source directory can be written.
\* Each call reads the records the layers hold at that time, so calls with
\* different records are calls before and after an edit.
InitEdits ==
  /\ GraphInit /\ direction = U
  /\ seed = CacheSeed
  /\ props = EmptyDict
  /\ writable = DefaultPaths
  /\ files = EmptyDict
  /\ ret = CacheIdle
  /\ writers = EmptyDict

SpecEdits == InitEdits /\ [][NextCache]_vars

\* ------------------------- behaviour, save and reload with parcel links
\* graph.add_qgis_parcel_ids(branches_info) on a graph just built
AttachOnce ==
  \E branches_info \in LinkLists :
    op = "from_dicts" /\ AddQgisParcelIds(branches_info)

\* an enriched graph is written, and the file is read back
SaveEnriched ==
  \E f \in FilePaths : op = "add_qgis_parcel_ids" /\ SaveToFile(f)
LoadEnriched ==
  \E f \in FilePaths : op = "add_qgis_parcel_ids" /\ LoadFromFile(f)

NextKeep == BuildScenario \/ AttachOnce \/ SaveEnriched \/ LoadEnriched

SpecKeep == InitFile /\ [][NextKeep]_vars

\* ----------------------------------------------------------------------
\* C21: a trace never mutates the graph.  Every step of Trace.trace, from
\* the call to the return, leaves the direction, the adjacency mapping,
\* the edges_by_node mapping (key sets and sequences) and the reference
\* mappings as they were.
C21_TraceKeepsGraph ==
  [][op' = "trace" =>
       /\ direction' = direction
       /\ nodes' = nodes
       /\ pipes' = pipes
       /\ qgis_fids' = qgis_fids
       /\ qgis_parcel_fids' = qgis_parcel_fids
    ]_vars

\* the PARCEL_FID values of the records for pipe p, in input order
LinksOf(branches_info, p) ==
  LET mine == SelectSeq(branches_info, LAMBDA b : b.PIPE_ID = p)
  IN [i \in 1..Len(mine) |-> mine[i].PARCEL_FID]

\* what Trace(graph, stop).trace(first) returns on the adjacency ns, ps
TraceOn(ns, ps, first, stop) ==
  LET t == RunLoop([nodes |-> ns, pipes |-> ps, node_queue |-> <<first>>,
                    pipes_visited |-> {}, nodes_visited |-> {},
                    end_of_path_nodes |-> {}, brk |-> FALSE,
                    expanded |-> <<>>, halted |-> {}], stop)
  IN [pipes |-> t.pipes_visited, nodes |-> t.nodes_visited,
      end_of_path_nodes |-> t.end_of_path_nodes]

\* the step is an add_qgis_parcel_ids call
EnrichStep == ret'.op = "add_qgis_parcel_ids" /\ ret'.n = ret.n + 1

\* C22: enrichment is independent of the base adjacency.  It appends each
\* record's PARCEL_FID to qgis_parcel_fids[PIPE_ID] in input order, with no
\* deduplication, and leaves direction, nodes, pipes and qgis_fids as they
\* were, so every trace result is the same before and after it.
C22_EnrichmentIndependent ==
  [][EnrichStep =>
       /\ direction' = direction
       /\ nodes' = nodes
       /\ pipes' = pipes
       /\ qgis_fids' = qgis_fids
       /\ DOMAIN qgis_parcel_fids' =
            (DOMAIN qgis_parcel_fids)
              \cup {ret'.branches_info[i].PIPE_ID :
                      i \in 1..Len(ret'.branches_info)}
       /\ \A p \in DOMAIN qgis_parcel_fids' :
            qgis_parcel_fids'[p] =
              Lookup(qgis_parcel_fids, p) \o LinksOf(ret'.branches_info, p)
       /\ \A first \in TraceNodes, stop \in StopNodes :
            TraceOn(nodes', pipes', first, stop)
              = TraceOn(nodes, pipes, first, stop)
    ]_vars

\* the same two links for one pipe were attached twice: each is there twice
C22_Witness ==
  /\ ret.op = "add_qgis_parcel_ids" /\ ret.n = 2
  /\ Len(ret.branches_info) = 2
  /\ \E p \in DOMAIN qgis_parcel_fids :
       /\ LinksOf(ret.branches_info, p) = <<FeatureId(2), FeatureId(1)>>
       /\ qgis_parcel_fids[p] =
            <<FeatureId(2), FeatureId(1), FeatureId(2), FeatureId(1)>>
  /\ nodes # EmptyDict

\* C23: after a build, qgis_fids has an entry for exactly the edges whose
\* record supplied a QGIS_FID, mapping the edge id to that reference
\* whatever its value, feature id 0 included.
C23_ReferencesKept ==
  (op = "from_dicts" /\ err = "none") =>
     \A i \in 1..Len(input) :
        LET pipe_id == GetItem(input[i], "PIPE_ID")
        IN IF HasKey(input[i], "QGIS_FID")
             THEN /\ pipe_id \in DOMAIN qgis_fids
                  /\ qgis_fids[pipe_id] = GetItem(input[i], "QGIS_FID")
           ELSE pipe_id \notin DOMAIN qgis_fids

\* len(self.graph.nodes) as line 212 reads it, for a trace of the graph
\* ns, ps from first under the predicate stop
SummarySize(ns, ps, first, stop) ==
  Cardinality(DOMAIN RunLoop([nodes |-> ns, pipes |-> ps,
                              node_queue |-> <<first>>, pipes_visited |-> {},
                              nodes_visited |-> {}, end_of_path_nodes |-> {},
                              brk |-> FALSE, expanded |-> <<>>,
                              halted |-> {}], stop).nodes)

\* the step is a whole Trace.trace call
TraceCallStep == op' = "trace" /\ pc' = "done" /\ pc # "loop" /\ pc # "return"

\* C24: the summary is purely diagnostic.  The graph size it records is a
\* property of the graph handed to trace, the same for every start node and
\* predicate, and requesting it changes none of pipes, nodes and
\* end_of_path_nodes.
C24_SummaryDiagnostic ==
  [][TraceCallStep =>
       /\ [pipes |-> result'.pipes, nodes |-> result'.nodes,
           end_of_path_nodes |-> result'.end_of_path_nodes]
            = TraceOn(nodes, pipes, first_node', stop_node')
       /\ DOMAIN result'.trace_summary # {} =>
            \A first \in TraceNodes, stop \in StopNodes :
              result'.trace_summary.g_size
                = SummarySize(nodes, pipes, first, stop)
    ]_vars

\* the entries of the stack below the top one
BelowTop == SubSeq(node_queue, 1, Len(node_queue) - 1)

\* the nodes expanded before the i-th expansion
ExpandedBefore(i) == {expanded[j] : j \in 1..(i - 1)}

\* C25: the traversal is a depth-first search over an explicit stack in
\* LIFO order.  Each iteration processes the most recently pushed entry not
\* yet popped and pushes the neighbours of a newly expanded node on top, so
\* the last neighbour of an expanded node is processed before the others.
C25_Lifo ==
  /\ [][TraceStep =>
          /\ PoppedNext \in nodes_visited'
          /\ IF Rejected(stop_node, PoppedNext)
               THEN /\ halted' = {PoppedNext}
                    /\ node_queue' = BelowTop
                    /\ expanded' = expanded
             ELSE IF PoppedNext \notin nodes_visited
               THEN /\ node_queue' = BelowTop \o Lookup(nodes, PoppedNext)
                    /\ expanded' = Append(expanded, PoppedNext)
             ELSE /\ node_queue' = BelowTop
                  /\ expanded' = expanded
       ]_vars
  /\ [](\A i \in 1..(Len(expanded) - 1) :
          LET ns == Lookup(nodes, expanded[i])
          IN (ns # <<>> /\ ns[Len(ns)] \notin ExpandedBefore(i + 1))
               => expanded[i + 1] = ns[Len(ns)])

\* B has the neighbours [C, D]: D was popped first and rejected by the stop
\* predicate, so C was never visited and is still on the stack
C25_Witness ==
  /\ pc = "done"
  /\ expanded = <<Named.A, Named.B>>
  /\ Lookup(nodes, Named.B) = <<Named.C, Named.D>>
  /\ halted = {Named.D}
  /\ Named.C \notin nodes_visited
  /\ Named.C \in Range(node_queue)

\* without a stop predicate D and everything behind it comes before C
C25_Order ==
  /\ pc = "done"
  /\ expanded = <<Named.A, Named.B, Named.D, Named.C>>

\* a graph read from a file equals the graph b, whose keys json wrote as
\* strings
SameGraph(l, b) ==
  /\ l.direction = b.direction
  /\ DOMAIN l.nodes = {JsonKey(k) : k \in DOMAIN b.nodes}
  /\ \A k \in DOMAIN b.nodes : l.nodes[JsonKey(k)] = b.nodes[k]
  /\ DOMAIN l.pipes = {JsonKey(k) : k \in DOMAIN b.pipes}
  /\ \A k \in DOMAIN b.pipes : l.pipes[JsonKey(k)] = b.pipes[k]
  /\ DOMAIN l.qgis_fids = {JsonKey(k) : k \in DOMAIN b.qgis_fids}
  /\ \A k \in DOMAIN b.qgis_fids : l.qgis_fids[JsonKey(k)] = b.qgis_fids[k]

\* C26: the cache never serves a stale graph.  After any sequence of edits
\* and get_layer_graph calls, a call without force returns a graph equal to
\* the one the builder would produce from the records the layers hold now.
C26_NeverStale ==
  (Queried /\ ~ret.force /\ BuiltGraph.err = "none") =>
     /\ ret.err = "none"
     /\ IF Called("build") THEN ret.g = BuiltGraph.g
        ELSE SameGraph(ret.g, BuiltGraph.g)

\* C27: every file that find_graph_file can return holds a complete
\* serialization of a graph; a to_file call that fails part-way leaves no
\* file that a later lookup takes as a cache hit.
C27_FoundFilesComplete ==
  \A layers \in LayerLists, d \in DIRECTION :
     LET graph_path == find_graph_file(files, props, seed, layers, d)
     IN graph_path # "" => Complete(files[graph_path])

\* C28: saving and reloading an enriched graph preserves its secondary
\* links.  The graph from_file reads from the file g.to_file wrote has the
\* qgis_parcel_fids mapping of g.
C28_LinksRoundTrip ==
  (ret.op = "from_file" /\ op = "add_qgis_parcel_ids"
     /\ qgis_parcel_fids # EmptyDict /\ HoldsSelf(ret.path)) =>
     /\ ret.err = "none"
     /\ DOMAIN ret.g.qgis_parcel_fids
          = {JsonKey(k) : k \in DOMAIN qgis_parcel_fids}
     /\ \A k \in DOMAIN qgis_parcel_fids :
          ret.g.qgis_parcel_fids[JsonKey(k)] = qgis_parcel_fids[k]

\* the feature ids of the parcels the branch records of pipe p name, in the
\* order of the branch layer; a branch whose parcel is absent gives none
ParcelsOf(data, p) ==
  LET named == SelectSeq(data.branches, LAMBDA b :
                 /\ b.PIPE_ID = p
                 /\ \E i \in 1..Len(data.parcels) :
                      data.parcels[i].GID = b.PRCL_GID)
  IN [j \in 1..Len(named) |->
        data.parcels[CHOOSE i \in 1..Len(data.parcels) :
                       data.parcels[i].GID = named[j].PRCL_GID].QGIS_FID]

\* C29: generate_new_graph with three layers attaches one secondary link
\* for every branch record whose PRCL_GID is the GID of a parcel, whatever
\* that parcel's feature id (0 included), and none for a branch whose
\* parcel is absent from the parcel layer.
C29_LinkPerBranch ==
  (Queried /\ Called("build") /\ ret.err = "none" /\ Len(ret.layers) = 3) =>
     \A p \in (DOMAIN ret.g.qgis_parcel_fids)
                \cup {ret.data.branches[i].PIPE_ID :
                        i \in 1..Len(ret.data.branches)} :
        Lookup(ret.g.qgis_parcel_fids, p) = ParcelsOf(ret.data, p)

\* C30: from_dicts accepts every finite sequence of well-formed records,
\* the empty one included: building from zero records returns a graph of
\* the requested direction with empty nodes and pipes, without error.
C30_AcceptsEmpty ==
  (op = "from_dicts" /\ input = <<>>) =>
     /\ err = "none"
     /\ direction \in DIRECTION
     /\ nodes = EmptyDict
     /\ pipes = EmptyDict

====
